---- MODULE Spec2Model ----
(***************************************************************************)
(* Model of armour.py: a polling risk manager that keeps one stop-loss and *)
(* one take-profit order resting on an exchange for every open position.   *)
(*                                                                         *)
(* Numbers.  Prices, tick sizes and quantities are integers counted in     *)
(* thousandths: 98500 is 98.5.  The percentages are counted in     *)
(* thousandths too, so a raw target entry*(1 - 0.015) is the exact         *)
(* rational (entry * 985) / 1000 and is carried as its numerator           *)
(* entry * 985 over the denominator PctScale.  Floating point noise is not *)
(* modelled: the arithmetic is exact.                                      *)
(***************************************************************************)
EXTENDS Integers, Sequences, FiniteSets, TLC

(***************************************************************************)
(* State.                                                                  *)
(***************************************************************************)
VARIABLES
    pc,               \* where __main__ stands: start, load, loop, sleep, exited
    secretLen,        \* len(API_SECRET)
    instResp,         \* what get_instruments answered
    loadResult,       \* what update_instrument_specs returned: none, ok, failed
    INSTRUMENT_SPECS, \* the registry
    exPositions,      \* the exchange: open positions
    exOrders,         \* the exchange: resting orders
    fetched,          \* get_open_positions has been called in this run
    positions,        \* the last cycle: pos_resp['openPositions']
    all_open_orders,  \* the last cycle: ord_resp['openOrders']
    calls,            \* the last cycle: the calls of place_order_safe and their answers
    fetch,            \* the last cycle: what the two fetches answered
    targets,          \* the last cycle: the position and target lines logged
    cycleEnd,         \* the last cycle: how monitor_and_manage_risk ended
    events,           \* the events the exchange has seen
    failures,         \* the API calls the exchange has failed
    stable,           \* the cycle before ran to its end, every call answered ok,
                      \* and the exchange saw no event since
    retry,            \* the payloads that failed in the cycle before, when the
                      \* exchange reports what it reported then
    fmt_in,           \* a call of format_price on its own: the price and the symbol
    fmt_out           \* what that call returned

vars == <<pc, secretLen, instResp, loadResult, INSTRUMENT_SPECS, exPositions, exOrders,
          fetched, positions, all_open_orders, calls, fetch, targets, cycleEnd, events,
          failures, stable, retry, fmt_in, fmt_out>>

\* The variables of the calls of format_price on their own.
formatVars == <<fmt_in, fmt_out>>

(***************************************************************************)
(* Bounds of the exchange environment.                                     *)
(***************************************************************************)
MaxPositions == 2

MaxOrders == 3

MaxEvents == 3

MaxFailures == 1

\* The largest price, in thousandths, format_price is called with on its own.
MaxPrice == 3000

(***************************************************************************)
(* Configuration (armour.py lines 12-16).                                  *)
(***************************************************************************)
PctScale == 1000

STOP_LOSS_PCT == 15

TAKE_PROFIT_PCT == 50

EXCLUDED_SYMBOLS == <<"PF_XBTUSD">>

AmendTicks == 2

SecretQuantum == 4

\* A key that a JSON record does not hold.
Missing == "<missing>"

\* None for a numeric field.
None == -1

(***************************************************************************)
(* str.upper() and str.lower() on the strings that occur.                  *)
(***************************************************************************)
Upper(s) ==
    CASE s = "pf_xbtusd" -> "PF_XBTUSD"
      [] s = "pf_ethusd" -> "PF_ETHUSD"
      [] OTHER -> s

Lower(s) ==
    CASE s \in {"LONG", "Long"} -> "long"
      [] s \in {"SHORT", "Short"} -> "short"
      [] s \in {"BUY", "Buy"} -> "buy"
      [] s \in {"SELL", "Sell"} -> "sell"
      [] s \in {"STP", "Stp"} -> "stp"
      [] s \in {"STOP", "Stop"} -> "stop"
      [] s \in {"LMT", "Lmt"} -> "lmt"
      [] s \in {"LIMIT", "Limit"} -> "limit"
      [] OTHER -> s

Abs(x) == IF x < 0 THEN -x ELSE x

Pow10(n) == IF n <= 0 THEN 1 ELSE IF n = 1 THEN 10 ELSE IF n = 2 THEN 100 ELSE 1000

(***************************************************************************)
(* round(n / d) for d > 0 and n >= 0: Python rounds halves to the even     *)
(* neighbour, and so does the f-string conversion of an exact half.        *)
(***************************************************************************)
RoundHalfEven(n, d) ==
    LET q == n \div d
        r == n % d
    IN  IF 2 * r < d THEN q
        ELSE IF 2 * r > d THEN q + 1
        ELSE IF q % 2 = 0 THEN q ELSE q + 1

(***************************************************************************)
(* f"{x:.{decimals}f}" read back as a number: x in thousandths, rounded to *)
(* `decimals` fractional digits.                                           *)
(***************************************************************************)
FormatFixed(x, decimals) ==
    LET unit == Pow10(3 - decimals)
    IN  RoundHalfEven(x, unit) * unit

(***************************************************************************)
(* get_decimals_from_tick: the number of fractional digits of the tick     *)
(* size after Decimal.normalize(); a tick is given in thousandths.         *)
(***************************************************************************)
get_decimals_from_tick(tick_val) ==
    IF tick_val % 1000 = 0 THEN 0
    ELSE IF tick_val % 100 = 0 THEN 1
    ELSE IF tick_val % 10 = 0 THEN 2
    ELSE 3

(***************************************************************************)
(* update_instrument_specs.  A response of get_instruments is a record     *)
(* [raises, hasList, instruments]; a descriptor is                         *)
(* [symbol, tickSize, contractValueTradePrecision] with "" for no symbol   *)
(* and None for an absent number.  The registry is a function from the     *)
(* loaded symbols to their specs.                                          *)
(***************************************************************************)
DescriptorUsable(inst) ==
    /\ inst.symbol # ""
    /\ inst.tickSize # None
    /\ inst.contractValueTradePrecision # None

SpecOf(inst) ==
    [tick_size |-> inst.tickSize,
     price_decimals |-> get_decimals_from_tick(inst.tickSize),
     qty_precision |-> inst.contractValueTradePrecision]

\* The registry after the loop of lines 48-62: a later descriptor of a symbol
\* overwrites an earlier one.
RegistryOf(instruments) ==
    LET usable == {i \in 1..Len(instruments) : DescriptorUsable(instruments[i])}
        syms == {instruments[i].symbol : i \in usable}
        last(s) == CHOOSE i \in usable :
                      /\ instruments[i].symbol = s
                      /\ \A j \in usable : instruments[j].symbol = s => j <= i
    IN  [s \in syms |-> SpecOf(instruments[last(s)])]

\* resp.get('instruments', []): an absent list reads as the empty list.
InstrumentsOf(resp) == IF resp.hasList THEN resp.instruments ELSE <<>>

update_instrument_specs_result(resp) ==
    IF resp.raises THEN FALSE
    ELSE IF InstrumentsOf(resp) = <<>> THEN FALSE
    ELSE TRUE

update_instrument_specs_registry(resp) ==
    IF resp.raises \/ InstrumentsOf(resp) = <<>> THEN << >>
    ELSE RegistryOf(InstrumentsOf(resp))

(***************************************************************************)
(* format_price and format_qty against a registry.                         *)
(***************************************************************************)
\* Mutant: the price is cut down to the multiple of the tick below it.
SnapToTickDown(num, den, tick) == (num \div (den * tick)) * tick

\* round(price / tick) * tick, the price given as the rational num / den.
SnapToTick(num, den, tick) == RoundHalfEven(num, den * tick) * tick

format_price(specs, num, den, symbol) ==
    IF symbol \notin DOMAIN specs THEN [val |-> None, ok |-> FALSE]
    ELSE LET tick == specs[symbol].tick_size
             decimals == specs[symbol].price_decimals
             rounded == SnapToTick(num, den, tick)
         IN  [val |-> FormatFixed(rounded, decimals), ok |-> TRUE]

format_qty(specs, qty, symbol) ==
    IF symbol \notin DOMAIN specs THEN [val |-> None, ok |-> FALSE]
    ELSE [val |-> FormatFixed(qty, specs[symbol].qty_precision), ok |-> TRUE]

(***************************************************************************)
(* Action calculation (lines 160-168).  The raw targets are numerators     *)
(* over PctScale.                                                          *)
(***************************************************************************)
\* Mutant: a short position gets the offsets of a long one.
compute_targets_same_offsets(side, entry_price) ==
    [action_side |-> IF side \in {"long", "buy"} THEN "sell" ELSE "buy",
     raw_stp |-> entry_price * (PctScale - STOP_LOSS_PCT),
     raw_lmt |-> entry_price * (PctScale + TAKE_PROFIT_PCT)]

compute_targets(side, entry_price) ==
    IF side \in {"long", "buy"}
    THEN [action_side |-> "sell",
          raw_stp |-> entry_price * (PctScale - STOP_LOSS_PCT),
          raw_lmt |-> entry_price * (PctScale + TAKE_PROFIT_PCT)]
    ELSE [action_side |-> "buy",
          raw_stp |-> entry_price * (PctScale + STOP_LOSS_PCT),
          raw_lmt |-> entry_price * (PctScale - TAKE_PROFIT_PCT)]

(***************************************************************************)
(* Payloads handed to place_order_safe.  `keys` is the set of keys the     *)
(* payload dictionary holds; a field outside `keys` is padding.            *)
(***************************************************************************)
Payload(action, keys, order_id, symbol, orderType, side, size, stopPrice, limitPrice) ==
    [action |-> action, keys |-> keys, order_id |-> order_id, symbol |-> symbol,
     orderType |-> orderType, side |-> side, size |-> size,
     stopPrice |-> stopPrice, limitPrice |-> limitPrice,
     reduceOnly |-> (action = "CREATE"),
     triggerSignal |-> IF action = "CREATE" /\ orderType = "stp" THEN "mark" ELSE ""]

CancelPayload(o_id, symbol) ==
    Payload("CANCEL", {"order_id", "symbol"}, o_id, symbol, "", "", None, None, None)

\* Mutant: the stop order is sent without reduceOnly.
CreateStpPayloadOpening(symbol, action_side, size, target_stp) ==
    [Payload("CREATE",
             {"orderType", "symbol", "side", "size", "stopPrice", "triggerSignal"},
             None, symbol, "stp", action_side, size, target_stp, None)
        EXCEPT !.reduceOnly = FALSE]

CreateStpPayload(symbol, action_side, size, target_stp) ==
    Payload("CREATE",
            {"orderType", "symbol", "side", "size", "stopPrice", "reduceOnly", "triggerSignal"},
            None, symbol, "stp", action_side, size, target_stp, None)

CreateLmtPayload(symbol, action_side, size, target_lmt) ==
    Payload("CREATE",
            {"orderType", "symbol", "side", "size", "limitPrice", "reduceOnly"},
            None, symbol, "lmt", action_side, size, None, target_lmt)

EditStpPayload(o_id, symbol, target_stp, size) ==
    Payload("EDIT", {"order_id", "symbol", "stopPrice", "size"},
            o_id, symbol, "", "", size, target_stp, None)

EditLmtPayload(o_id, symbol, target_lmt, size) ==
    Payload("EDIT", {"order_id", "symbol", "limitPrice", "size"},
            o_id, symbol, "", "", size, None, target_lmt)

(***************************************************************************)
(* One iteration of the loop over the positions (lines 143-278).           *)
(* An order of the book is                                                  *)
(* [symbol, side, orderType, order_id, stopPrice, limitPrice, size];       *)
(* a price the order does not hold is None and reads as 0 (.get(k, 0)).    *)
(***************************************************************************)
\* Mutant: the exclusion list is matched letter for letter.
IsExcludedExact(symbol) ==
    \E i \in 1..Len(EXCLUDED_SYMBOLS) : symbol = EXCLUDED_SYMBOLS[i]

IsExcluded(symbol) ==
    \E i \in 1..Len(EXCLUDED_SYMBOLS) : Upper(symbol) = Upper(EXCLUDED_SYMBOLS[i])

\* Mutant: the filter looks at the side alone.
MatchesAnySymbol(o, symbol, action_side) == Lower(o.side) = action_side

\* The filter of lines 184-187: o['side'] is read only when the symbol matches.
MatchesPosition(o, symbol, action_side) ==
    o.symbol = symbol /\ Lower(o.side) = action_side

FilterRaises(orders, symbol) ==
    \E i \in 1..Len(orders) :
        \/ orders[i].symbol = Missing
        \/ orders[i].symbol = symbol /\ orders[i].side = Missing

PositionOrders(orders, symbol, action_side) ==
    LET Test(o) == MatchesPosition(o, symbol, action_side)
    IN  SelectSeq(orders, Test)

IsStpType(o) == Lower(o.orderType) \in {"stp", "stop"}

IsLmtType(o) == ~IsStpType(o) /\ Lower(o.orderType) \in {"lmt", "limit"}

ExistingStp(position_orders) == SelectSeq(position_orders, IsStpType)

ExistingLmt(position_orders) == SelectSeq(position_orders, IsLmtType)

\* Mutant: the last order of each bucket is kept instead of the first.
KeepIdsLast(existing_stp_orders, existing_lmt_orders) ==
    (IF existing_stp_orders # <<>>
     THEN {existing_stp_orders[Len(existing_stp_orders)].order_id} ELSE {})
    \cup (IF existing_lmt_orders # <<>>
          THEN {existing_lmt_orders[Len(existing_lmt_orders)].order_id} ELSE {})

\* orders_to_keep_ids (lines 206-208).
KeepIds(existing_stp_orders, existing_lmt_orders) ==
    (IF existing_stp_orders # <<>> THEN {existing_stp_orders[1].order_id} ELSE {})
    \cup (IF existing_lmt_orders # <<>> THEN {existing_lmt_orders[1].order_id} ELSE {})

\* Mutant: the cleanup cancels every order of the position, the kept ones too.
CancelCallsKeepNone(position_orders, keep, symbol) ==
    [i \in 1..Len(position_orders) |-> CancelPayload(position_orders[i].order_id, symbol)]

\* The cleanup loop (lines 211-219).
RECURSIVE CancelCalls(_, _, _)
CancelCalls(position_orders, keep, symbol) ==
    IF position_orders = <<>> THEN <<>>
    ELSE LET order == Head(position_orders)
             rest == CancelCalls(Tail(position_orders), keep, symbol)
         IN  IF order.order_id \notin keep
             THEN <<CancelPayload(order.order_id, symbol)>> \o rest
             ELSE rest

PriceRead(p) == IF p = None THEN 0 ELSE p

\* Mutant: the chosen order is amended in every cycle.
NeedsAmendAlways(curr_price, curr_size, target, size, tick) == TRUE

\* Mutant: the tolerance is one tick wider.
NeedsAmendLoose(curr_price, curr_size, target, size, tick) ==
    \/ Abs(curr_price - target) > tick * (AmendTicks + 1)
    \/ Abs(curr_size - size) > 0

\* Lines 238-242 and 267-271.
NeedsAmend(curr_price, curr_size, target, size, tick) ==
    \/ Abs(curr_price - target) > tick * AmendTicks
    \/ Abs(curr_size - size) > 0

StpArm(existing_stp_orders, symbol, action_side, size, target_stp, tick) ==
    IF existing_stp_orders = <<>>
    THEN <<CreateStpPayload(symbol, action_side, size, target_stp)>>
    ELSE LET chosen_stp == existing_stp_orders[1]
         IN  IF NeedsAmend(PriceRead(chosen_stp.stopPrice), PriceRead(chosen_stp.size),
                           target_stp, size, tick)
             THEN <<EditStpPayload(chosen_stp.order_id, symbol, target_stp, size)>>
             ELSE <<>>

\* Mutant: a take-profit order that needs an amend is created anew.
LmtArmRecreate(existing_lmt_orders, symbol, action_side, size, target_lmt, tick) ==
    IF existing_lmt_orders = <<>>
    THEN <<CreateLmtPayload(symbol, action_side, size, target_lmt)>>
    ELSE LET chosen_lmt == existing_lmt_orders[1]
         IN  IF NeedsAmend(PriceRead(chosen_lmt.limitPrice), PriceRead(chosen_lmt.size),
                           target_lmt, size, tick)
             THEN <<CreateLmtPayload(symbol, action_side, size, target_lmt)>>
             ELSE <<>>

LmtArm(existing_lmt_orders, symbol, action_side, size, target_lmt, tick) ==
    IF existing_lmt_orders = <<>>
    THEN <<CreateLmtPayload(symbol, action_side, size, target_lmt)>>
    ELSE LET chosen_lmt == existing_lmt_orders[1]
         IN  IF NeedsAmend(PriceRead(chosen_lmt.limitPrice), PriceRead(chosen_lmt.size),
                           target_lmt, size, tick)
             THEN <<EditLmtPayload(chosen_lmt.order_id, symbol, target_lmt, size)>>
             ELSE <<>>

\* Lines 179-180: what the cycle logs of a position and its targets.
TargetLine(symbol, side, entry_price, t, size, target_stp, target_lmt) ==
    [symbol |-> symbol, side |-> side, entry_price |-> entry_price,
     action_side |-> t.action_side, raw_stp |-> t.raw_stp, raw_lmt |-> t.raw_lmt,
     size |-> size, target_stp |-> target_stp, target_lmt |-> target_lmt]

\* The body of the loop for one position: the payloads it hands to
\* place_order_safe, in order, and whether it raised before any of them.
ProcessPosition(pos, orders, specs) ==
    LET Skip == [calls |-> <<>>, raised |-> FALSE, targets |-> <<>>]
        Raise == [calls |-> <<>>, raised |-> TRUE, targets |-> <<>>]
        symbol == pos.symbol
    IN  IF symbol = Missing THEN Raise
        ELSE IF IsExcluded(symbol) THEN Skip
        ELSE IF symbol \notin DOMAIN specs THEN Skip
        ELSE IF pos.side = Missing THEN Raise
        ELSE
          LET t == compute_targets(Lower(pos.side), pos.price)
              q == format_qty(specs, pos.size, symbol)
              s == format_price(specs, t.raw_stp, PctScale, symbol)
              l == format_price(specs, t.raw_lmt, PctScale, symbol)
          IN  IF ~(q.ok /\ s.ok /\ l.ok) THEN Skip
              ELSE
                LET position_orders == PositionOrders(orders, symbol, t.action_side)
                    logged == <<TargetLine(symbol, Lower(pos.side), pos.price, t,
                                           q.val, s.val, l.val)>>
                IN  IF \/ FilterRaises(orders, symbol)
                       \/ \E i \in 1..Len(position_orders) :
                             position_orders[i].orderType = Missing
                    THEN [Raise EXCEPT !.targets = logged]
                    ELSE
                      LET stps == ExistingStp(position_orders)
                          lmts == ExistingLmt(position_orders)
                          tick == specs[symbol].tick_size
                      IN  [calls |->
                              CancelCalls(position_orders, KeepIds(stps, lmts), symbol)
                              \o StpArm(stps, symbol, t.action_side, q.val, s.val, tick)
                              \o LmtArm(lmts, symbol, t.action_side, q.val, l.val, tick),
                           raised |-> FALSE,
                           targets |-> logged]

\* Mutant: a skipped position ends the loop like a return.
LeavesLoopOnSkip(r) == r.raised \/ r.targets = <<>>

\* Whether the loop ends after an iteration: an exception leaves it for the
\* except of line 280, a `continue` (lines 149, 153, 177) goes on to the next
\* position.
LeavesLoop(r) == r.raised

\* The loop over the positions under the try of line 119.
RECURSIVE ProcessFrom(_, _, _, _)
ProcessFrom(open_positions, i, orders, specs) ==
    IF i > Len(open_positions) THEN [calls |-> <<>>, raised |-> FALSE, targets |-> <<>>]
    ELSE LET r == ProcessPosition(open_positions[i], orders, specs)
         IN  IF LeavesLoop(r) THEN r
             ELSE LET rest == ProcessFrom(open_positions, i + 1, orders, specs)
                  IN  [calls |-> r.calls \o rest.calls, raised |-> rest.raised,
                       targets |-> r.targets \o rest.targets]

(***************************************************************************)
(* place_order_safe (lines 92-113).  The response of the exchange is "ok", *)
(* "error" (an error payload) or "raise" (the API call raises).  The       *)
(* result says whether an exception leaves place_order_safe.               *)
(***************************************************************************)
Responses == {"ok", "error", "raise"}

\* The answers n calls in a row can get when at most `budget` of them fail.
RECURSIVE AnswersWithin(_, _)
AnswersWithin(n, budget) ==
    IF n = 0 THEN {<<>>}
    ELSE {Append(r, "ok") : r \in AnswersWithin(n - 1, budget)}
         \cup (IF budget = 0 THEN {}
               ELSE {Append(r, x) : r \in AnswersWithin(n - 1, budget - 1),
                                    x \in Responses \ {"ok"}})

\* Mutant: without the except of line 112 an exception of the API leaves.
place_order_unsafe(resp) == IF resp = "raise" THEN "raised" ELSE "returned"

place_order_safe(resp) == "returned"

\* Mutant: a payload that failed in the cycle before is taken as sent.
IssuedOnce(plan, resps) ==
    LET NotTried(c) == c \notin retry
    IN  SelectSeq(plan, NotTried)

\* The calls actually made: the planned ones up to the first whose
\* exception leaves place_order_safe.
Issued(plan, resps) ==
    LET bad == {k \in 1..Len(plan) : place_order_safe(resps[k]) = "raised"}
    IN  IF bad = {} THEN plan
        ELSE SubSeq(plan, 1, CHOOSE k \in bad : \A j \in bad : k <= j)

(***************************************************************************)
(* The exchange.  It holds the open positions (one per symbol) and the     *)
(* resting orders (each with its own identifier), and it changes between   *)
(* two cycles by events: a position opens or closes, an order is placed    *)
(* from outside or leaves the book.                                        *)
(***************************************************************************)
Position(symbol, side, price, size) ==
    [symbol |-> symbol, side |-> side, price |-> price, size |-> size]

PositionChoices ==
    { Position("PF_ETHUSD", "long", 100000, 1000),
      Position("PF_ETHUSD", "Buy", 101000, 2500),
      Position("PF_ETHUSD", "SHORT", 100000, 2000),
      Position("PF_SOLUSD", "sell", 20010, 1250),
      Position("PF_XBTUSD", "long", 100000, 1000),
      Position("pf_xbtusd", "short", 100000, 1000),
      Position("PF_ADAUSD", "long", 100000, 1000),
      Position(Missing, "long", 100000, 1000) }

Order(order_id, symbol, side, orderType, stopPrice, limitPrice, size) ==
    [order_id |-> order_id, symbol |-> symbol, side |-> side, orderType |-> orderType,
     stopPrice |-> stopPrice, limitPrice |-> limitPrice, size |-> size]

OrderChoices ==
    { Order(1, "PF_ETHUSD", "sell", "stp", 98500, None, 1000),
      Order(2, "PF_ETHUSD", "Sell", "STOP", 100000, None, 1000),
      Order(3, "PF_ETHUSD", "sell", "limit", None, 106000, 1000),
      Order(4, "PF_ETHUSD", "sell", "take_profit", 104000, None, 1000),
      Order(5, "pf_ethusd", "sell", "stp", 98500, None, 1000),
      Order(6, "PF_XBTUSD", "sell", "stp", 98500, None, 1000),
      Order(7, "PF_ETHUSD", Missing, "stp", 98500, None, 1000) }

IdsOf(orders) == {orders[i].order_id : i \in 1..Len(orders)}

\* The identifier the exchange gives a new order: one no resting order has.
FreshId(orders) ==
    CHOOSE n \in 1..(Len(orders) + 1) :
        /\ n \notin IdsOf(orders)
        /\ \A m \in 1..(Len(orders) + 1) : m \notin IdsOf(orders) => n <= m

\* The book after one call the exchange answered with `resp`.
ApplyCall(orders, call, resp) ==
    IF resp # "ok" THEN orders
    ELSE IF call.action = "CREATE"
    THEN Append(orders,
                Order(FreshId(orders), call.symbol, call.side, call.orderType,
                      call.stopPrice, call.limitPrice, call.size))
    ELSE IF call.action = "EDIT"
    THEN [i \in 1..Len(orders) |->
            IF orders[i].order_id # call.order_id THEN orders[i]
            ELSE [orders[i] EXCEPT
                    !.stopPrice = IF "stopPrice" \in call.keys THEN call.stopPrice ELSE @,
                    !.limitPrice = IF "limitPrice" \in call.keys THEN call.limitPrice ELSE @,
                    !.size = IF "size" \in call.keys THEN call.size ELSE @]]
    ELSE LET Stays(o) == o.order_id # call.order_id
         IN  SelectSeq(orders, Stays)

RECURSIVE ApplyAll(_, _, _, _)
ApplyAll(orders, issued, resps, k) ==
    IF k > Len(issued) THEN orders
    ELSE ApplyAll(ApplyCall(orders, issued[k], resps[k]), issued, resps, k + 1)

(***************************************************************************)
(* The inputs of the start.                                                *)
(***************************************************************************)
\* len(API_SECRET): 15 is the length of the default "YOUR_API_SECRET".
SecretLens == {15, 16}

Descriptor(symbol, tickSize, prec) ==
    [symbol |-> symbol, tickSize |-> tickSize, contractValueTradePrecision |-> prec]

InstrumentResponse(raises, hasList, instruments) ==
    [raises |-> raises, hasList |-> hasList, instruments |-> instruments]

\* An answer with usable descriptors and one without its precision.
FullResponse ==
    InstrumentResponse(FALSE, TRUE,
        << Descriptor("PF_XBTUSD", 500, 0), Descriptor("pf_xbtusd", 500, 0),
           Descriptor("PF_ETHUSD", 500, 0), Descriptor("PF_SOLUSD", 10, 1),
           Descriptor("PF_ADAUSD", 10, None) >>)

InstrumentResponses ==
    { InstrumentResponse(TRUE, FALSE, <<>>),
      InstrumentResponse(FALSE, FALSE, <<>>),
      InstrumentResponse(FALSE, TRUE, <<>>),
      InstrumentResponse(FALSE, TRUE,
          << Descriptor("", 500, 0), Descriptor("PF_SOLUSD", None, 0) >>),
      FullResponse }

NoResponse == InstrumentResponse(FALSE, FALSE, <<>>)

\* No call of format_price on its own is under way.
NoFormatCall == [price |-> None, symbol |-> ""]

NoFormatResult == [val |-> None, ok |-> FALSE, returned |-> FALSE]

Init ==
    /\ pc = "start"
    /\ secretLen \in SecretLens
    /\ instResp = NoResponse
    /\ loadResult = "none"
    /\ INSTRUMENT_SPECS = << >>
    /\ exPositions = <<>>
    /\ exOrders = <<>>
    /\ fetched = FALSE
    /\ positions = <<>>
    /\ all_open_orders = <<>>
    /\ calls = <<>>
    /\ fetch = <<"uncalled", "uncalled">>
    /\ targets = <<>>
    /\ cycleEnd = "idle"
    /\ events = 0
    /\ failures = 0
    /\ stable = FALSE
    /\ retry = {}
    /\ fmt_in = NoFormatCall
    /\ fmt_out = NoFormatResult

(***************************************************************************)
(* __main__ (lines 283-297).                                               *)
(***************************************************************************)
SecretSane(len) == len % SecretQuantum = 0

\* Lines 284-286.
CheckSecret ==
    /\ pc = "start"
    /\ pc' = IF SecretSane(secretLen) THEN "load" ELSE "exited"
    /\ UNCHANGED <<secretLen, instResp, loadResult, INSTRUMENT_SPECS, exPositions,
                   exOrders, fetched, positions, all_open_orders, calls, fetch, targets,
                   cycleEnd, events, failures, stable, retry, fmt_in, fmt_out>>

\* Mutant: the result of the load is not looked at.
EntersLoopAlways(loaded) == TRUE

\* Line 290: whether __main__ goes on to the loop.
EntersLoop(loaded) == loaded

\* Lines 288-294.
LoadSpecs ==
    /\ pc = "load"
    /\ \E resp \in InstrumentResponses :
         /\ instResp' = resp
         /\ INSTRUMENT_SPECS' = update_instrument_specs_registry(resp)
         /\ loadResult' = IF update_instrument_specs_result(resp) THEN "ok" ELSE "failed"
         /\ pc' = IF EntersLoop(update_instrument_specs_result(resp))
                  THEN "loop" ELSE "exited"
    /\ UNCHANGED <<secretLen, exPositions, exOrders, fetched, positions,
                   all_open_orders, calls, fetch, targets, cycleEnd, events, failures,
                   stable, retry, fmt_in, fmt_out>>

(***************************************************************************)
(* monitor_and_manage_risk (lines 115-281), one whole cycle.  Each of the  *)
(* two fetches raises ("raise"), answers without its list ("nokey") or     *)
(* answers with it ("ok"); get_open_orders is not called ("uncalled") once *)
(* get_open_positions has raised.                                          *)
(***************************************************************************)
FetchCases ==
    { <<"raise", "uncalled">>, <<"ok", "raise">>,
      <<"nokey", "ok">>, <<"ok", "nokey">>, <<"ok", "ok">> }

\* Lines 119-131.
FetchEnd(pos_resp, ord_resp) ==
    IF pos_resp = "raise" THEN "fetch_raised"
    ELSE IF ord_resp = "raise" THEN "fetch_raised"
    ELSE IF pos_resp = "nokey" THEN "missing_positions"
    ELSE IF ord_resp = "nokey" THEN "missing_orders"
    ELSE "ok"

Failed(issued, resps) == Cardinality({k \in 1..Len(issued) : resps[k] # "ok"})

Logged(issued, resps) ==
    [k \in 1..Len(issued) |-> [call |-> issued[k], resp |-> resps[k]]]

\* Mutant: a cycle that could not fetch ends the process.
AfterCycleFatal(end) ==
    IF end \in {"fetch_raised", "missing_positions", "missing_orders"}
    THEN "exited" ELSE "sleep"

\* Lines 295-297: where __main__ stands once monitor_and_manage_risk is over;
\* the except of line 280 lets no exception out of it.
AfterCycle(end) == "sleep"

Monitor ==
    /\ pc = "loop"
    /\ fetched' = TRUE
    /\ \E answers \in FetchCases :
       LET pos_resp == answers[1]
           ord_resp == answers[2]
       IN
         /\ fetch' = <<pos_resp, ord_resp>>
         /\ IF FetchEnd(pos_resp, ord_resp) # "ok"
            THEN /\ failures < MaxFailures
                 /\ failures' = failures + 1
                 /\ cycleEnd' = FetchEnd(pos_resp, ord_resp)
                 /\ positions' = <<>>
                 /\ all_open_orders' = <<>>
                 /\ calls' = <<>>
                 /\ targets' = <<>>
                 /\ exOrders' = exOrders
            ELSE /\ positions' = exPositions
                 /\ all_open_orders' = exOrders
                 /\ IF exPositions = <<>>
                    THEN /\ failures' = failures
                         /\ cycleEnd' = "no_positions"
                         /\ calls' = <<>>
                         /\ targets' = <<>>
                         /\ exOrders' = exOrders
                    ELSE LET run == ProcessFrom(exPositions, 1, exOrders, INSTRUMENT_SPECS)
                         IN  \E resps \in AnswersWithin(Len(run.calls),
                                                        MaxFailures - failures) :
                               LET issued == Issued(run.calls, resps)
                               IN  /\ failures + Failed(issued, resps) <= MaxFailures
                                   /\ failures' = failures + Failed(issued, resps)
                                   /\ calls' = Logged(issued, resps)
                                   /\ targets' = run.targets
                                   /\ exOrders' = ApplyAll(exOrders, issued, resps, 1)
                                   /\ cycleEnd' =
                                        IF \E k \in 1..Len(issued) :
                                               place_order_safe(resps[k]) = "raised"
                                        THEN "call_raised"
                                        ELSE IF run.raised THEN "record_raised"
                                        ELSE "done"
    /\ pc' = AfterCycle(cycleEnd')
    /\ UNCHANGED <<secretLen, instResp, loadResult, INSTRUMENT_SPECS, exPositions,
                   events, stable, retry, fmt_in, fmt_out>>

(***************************************************************************)
(* time.sleep(60) (line 297): the process wakes up for the next cycle and  *)
(* the locals of the last one are gone.                                    *)
(***************************************************************************)
FetchedOk == cycleEnd \in {"no_positions", "record_raised", "done"}

AllAnsweredOk == \A k \in 1..Len(calls) : calls[k].resp = "ok"

FailedPayloads == {calls[k].call : k \in {j \in 1..Len(calls) : calls[j].resp # "ok"}}

Sleep ==
    /\ pc = "sleep"
    /\ pc' = "loop"
    /\ stable' = (FetchedOk /\ AllAnsweredOk)
    /\ retry' = IF FetchedOk /\ exOrders = all_open_orders THEN FailedPayloads ELSE {}
    /\ positions' = <<>>
    /\ all_open_orders' = <<>>
    /\ calls' = <<>>
    /\ fetch' = <<"uncalled", "uncalled">>
    /\ targets' = <<>>
    /\ cycleEnd' = "idle"
    /\ UNCHANGED <<secretLen, instResp, loadResult, INSTRUMENT_SPECS, exPositions,
                   exOrders, fetched, events, failures, fmt_in, fmt_out>>

(***************************************************************************)
(* The events of the exchange between two cycles.                          *)
(***************************************************************************)
ExchangeEvent ==
    /\ pc = "loop"
    /\ events < MaxEvents
    /\ events' = events + 1
    /\ stable' = FALSE
    /\ retry' = {}
    /\ UNCHANGED <<pc, secretLen, instResp, loadResult, INSTRUMENT_SPECS, fetched,
                   positions, all_open_orders, calls, fetch, targets, cycleEnd,
                   failures, fmt_in, fmt_out>>

SymbolsOf(ps) == {ps[i].symbol : i \in 1..Len(ps)}

PositionOpens ==
    /\ ExchangeEvent
    /\ Len(exPositions) < MaxPositions
    /\ \E p \in PositionChoices :
         /\ p.symbol \notin SymbolsOf(exPositions)
         /\ exPositions' = Append(exPositions, p)
    /\ UNCHANGED exOrders

PositionCloses ==
    /\ ExchangeEvent
    /\ \E i \in 1..Len(exPositions) :
         exPositions' = SubSeq(exPositions, 1, i - 1)
                        \o SubSeq(exPositions, i + 1, Len(exPositions))
    /\ UNCHANGED exOrders

OrderPlaced ==
    /\ ExchangeEvent
    /\ Len(exOrders) < MaxOrders
    /\ \E o \in OrderChoices :
         /\ o.order_id \notin IdsOf(exOrders)
         /\ exOrders' = Append(exOrders, o)
    /\ UNCHANGED exPositions

OrderGone ==
    /\ ExchangeEvent
    /\ \E i \in 1..Len(exOrders) :
         exOrders' = SubSeq(exOrders, 1, i - 1) \o SubSeq(exOrders, i + 1, Len(exOrders))
    /\ UNCHANGED exPositions

Next ==
    \/ CheckSecret
    \/ LoadSpecs
    \/ Monitor
    \/ Sleep
    \/ PositionOpens
    \/ PositionCloses
    \/ OrderPlaced
    \/ OrderGone

Spec == Init /\ [][Next]_vars

(***************************************************************************)
(* Vocabulary of the properties: what a cycle was given and what it did,   *)
(* read from the snapshot and the log of the last cycle.                   *)
(***************************************************************************)
ExcludedSet == {Upper(EXCLUDED_SYMBOLS[i]) : i \in 1..Len(EXCLUDED_SYMBOLS)}

StpTypes == {"stp", "stop"}

LmtTypes == {"lmt", "limit"}

LogPayloads == [k \in 1..Len(calls) |-> calls[k].call]

CallsOf(action, id) ==
    {k \in 1..Len(calls) : calls[k].call.action = action /\ calls[k].call.order_id = id}

\* A position the reconciler manages: not excluded and with a spec.
Manageable(p) ==
    /\ p.symbol # Missing
    /\ Upper(p.symbol) \notin ExcludedSet
    /\ p.symbol \in DOMAIN INSTRUMENT_SPECS

ClosingSide(p) == IF Lower(p.side) \in {"long", "buy"} THEN "sell" ELSE "buy"

\* The resting orders of one arm of a position, in the order of the book.
ArmBucket(p, types) ==
    LET InArm(o) == /\ o.symbol = p.symbol
                    /\ Lower(o.side) = ClosingSide(p)
                    /\ Lower(o.orderType) \in types
    IN  SelectSeq(all_open_orders, InArm)

\* The line the cycle logged for a position.
TargetOf(p) == CHOOSE t \in {targets[i] : i \in 1..Len(targets)} : t.symbol = p.symbol

TickOf(p) == INSTRUMENT_SPECS[p.symbol].tick_size

ManagedPositions == {j \in 1..Len(positions) : Manageable(positions[j])}

FetchFailed == fetch \in FetchCases \ {<<"ok", "ok">>}

(***************************************************************************)
(* C1.  Idempotence: when a cycle that fetched its data and got every call *)
(* answered ok is followed, with no event on the exchange in between, by   *)
(* another cycle, that second cycle issues no order-mutation call.         *)
(***************************************************************************)
C1_SecondRunIssuesNothing == stable => calls = <<>>

\* Reached: a position opened, the first cycles created its two orders, and
\* the cycle after the quiet sleep found nothing to do.
C1_Witness ==
    /\ pc = "sleep"
    /\ stable
    /\ cycleEnd = "done"
    /\ events = 1
    /\ ManagedPositions # {}
    /\ Len(all_open_orders) = 2
    /\ calls = <<>>

(***************************************************************************)
(* C2.  No call of a cycle names an excluded symbol (compared without      *)
(* regard to case), and the resting orders of an excluded symbol are the   *)
(* same after the cycle as before.                                         *)
(***************************************************************************)
OnExcluded(o) == Upper(o.symbol) \in ExcludedSet

C2_ExcludedUntouched ==
    /\ \A k \in 1..Len(calls) : Upper(calls[k].call.symbol) \notin ExcludedSet
    /\ (pc = "sleep" /\ fetch = <<"ok", "ok">>)
          => SelectSeq(exOrders, OnExcluded) = SelectSeq(all_open_orders, OnExcluded)

\* Reached: a cycle saw a position on "pf_xbtusd", an order on "PF_XBTUSD" and
\* issued calls for another symbol.
C2_Witness ==
    /\ cycleEnd = "done"
    /\ calls # <<>>
    /\ \E j \in 1..Len(positions) :
          positions[j].symbol # Missing /\ positions[j].symbol = "pf_xbtusd"
    /\ \E i \in 1..Len(all_open_orders) : OnExcluded(all_open_orders[i])

C4_LaterPositionsProcessed ==
    (pc = "sleep" /\ fetch = <<"ok", "ok">>) =>
        \A j \in 1..Len(positions) :
            LET own == ProcessPosition(positions[j], all_open_orders, INSTRUMENT_SPECS).calls
            IN  \A i \in 1..Len(own) : \E k \in 1..Len(calls) : calls[k].call = own[i]

(***************************************************************************)
(* C5.  Duplicates: in a cycle that processed every position, the first    *)
(* order of each arm's bucket gets no cancel call and every other order of *)
(* the bucket gets exactly one.                                            *)
(***************************************************************************)
C5_FirstKeptOthersCancelled ==
    cycleEnd = "done" =>
        \A j \in ManagedPositions : \A types \in {StpTypes, LmtTypes} :
            LET bucket == ArmBucket(positions[j], types)
            IN  bucket # <<>> =>
                  /\ CallsOf("CANCEL", bucket[1].order_id) = {}
                  /\ \A i \in 2..Len(bucket) :
                        Cardinality(CallsOf("CANCEL", bucket[i].order_id)) = 1

\* Reached: a processed position with two orders in one bucket.
C5_Witness ==
    /\ cycleEnd = "done"
    /\ \E j \in ManagedPositions : \E types \in {StpTypes, LmtTypes} :
          Len(ArmBucket(positions[j], types)) >= 2

(***************************************************************************)
(* C6.  Amend rule: when the first order of an arm's bucket rests more     *)
(* than 2 ticks from the arm's target, the cycle issues exactly one edit   *)
(* call for it, holding its identifier, the target price and the formatted *)
(* position size; and every edit call of a cycle holds an identifier, a    *)
(* price and a size.                                                       *)
(***************************************************************************)
FarFromTarget(p, price, target) == Abs(PriceRead(price) - target) > 2 * TickOf(p)

C6_AmendCarriesPriceAndSize ==
    /\ \A k \in 1..Len(calls) :
          calls[k].call.action = "EDIT" =>
             /\ {"order_id", "size"} \subseteq calls[k].call.keys
             /\ \/ "stopPrice" \in calls[k].call.keys
                \/ "limitPrice" \in calls[k].call.keys
    /\ cycleEnd = "done" =>
          \A j \in ManagedPositions :
             LET p == positions[j]
                 stps == ArmBucket(p, StpTypes)
                 lmts == ArmBucket(p, LmtTypes)
             IN  /\ (stps # <<>> /\ FarFromTarget(p, stps[1].stopPrice, TargetOf(p).target_stp))
                       => /\ Cardinality(CallsOf("EDIT", stps[1].order_id)) = 1
                          /\ \A k \in CallsOf("EDIT", stps[1].order_id) :
                                /\ "stopPrice" \in calls[k].call.keys
                                /\ calls[k].call.stopPrice = TargetOf(p).target_stp
                                /\ calls[k].call.size = TargetOf(p).size
                 /\ (lmts # <<>> /\ FarFromTarget(p, lmts[1].limitPrice, TargetOf(p).target_lmt))
                       => /\ Cardinality(CallsOf("EDIT", lmts[1].order_id)) = 1
                          /\ \A k \in CallsOf("EDIT", lmts[1].order_id) :
                                /\ "limitPrice" \in calls[k].call.keys
                                /\ calls[k].call.limitPrice = TargetOf(p).target_lmt
                                /\ calls[k].call.size = TargetOf(p).size

\* Reached: a stop of the right size more than 2 ticks from the target.
C6_Witness ==
    /\ cycleEnd = "done"
    /\ \E j \in ManagedPositions :
          LET p == positions[j]
              stps == ArmBucket(p, StpTypes)
          IN  /\ stps # <<>>
              /\ stps[1].size = TargetOf(p).size
              /\ FarFromTarget(p, stps[1].stopPrice, TargetOf(p).target_stp)

(***************************************************************************)
(* C7.  Targets: a long or buy position closes by selling, with the raw    *)
(* stop entry*(1 - 0.015) and the raw limit entry*(1 + 0.05); a short or   *)
(* sell position closes by buying, with entry*(1 + 0.015) and              *)
(* entry*(1 - 0.05).  Entry 100 gives 98.5 and 105.0, or 101.5 and 95.0.   *)
(* The raw targets are numerators over PctScale.                           *)
(***************************************************************************)
C7_Targets ==
    \A i \in 1..Len(targets) :
       LET t == targets[i]
           e == t.entry_price
       IN  /\ t.side \in {"long", "buy"} =>
                /\ t.action_side = "sell"
                /\ t.raw_stp = e * PctScale - e * 15
                /\ t.raw_lmt = e * PctScale + e * 50
                /\ e = 100000 => (t.raw_stp = 98500 * PctScale /\ t.raw_lmt = 105000 * PctScale)
           /\ t.side \in {"short", "sell"} =>
                /\ t.action_side = "buy"
                /\ t.raw_stp = e * PctScale + e * 15
                /\ t.raw_lmt = e * PctScale - e * 50
                /\ e = 100000 => (t.raw_stp = 101500 * PctScale /\ t.raw_lmt = 95000 * PctScale)

\* Reached: a short position entered at 100.
C7_Witness ==
    \E i \in 1..Len(targets) :
        /\ targets[i].side = "short"
        /\ targets[i].entry_price = 100000
        /\ targets[i].action_side = "buy"

(***************************************************************************)
(* C8.  Retry: a payload that failed in a cycle after which the exchange   *)
(* reports the same positions and orders is issued again by the next cycle *)
(* that fetches its data.                                                  *)
(***************************************************************************)
C8_FailedCallRetried ==
    (pc = "sleep" /\ fetch = <<"ok", "ok">>) =>
        \A c \in retry : \E k \in 1..Len(calls) : calls[k].call = c

\* Reached: the cycle after a failed call.
C8_Witness ==
    /\ pc = "sleep"
    /\ fetch = <<"ok", "ok">>
    /\ retry # {}

(***************************************************************************)
(* C9.  A failed call stops nothing: a cycle in which a call failed still  *)
(* issues, in order, every call the positions and orders it fetched ask    *)
(* for, no exception of a call ends it, and the process sleeps on.         *)
(***************************************************************************)
C9_FailedCallNotFatal ==
    (\E k \in 1..Len(calls) : calls[k].resp # "ok") =>
        /\ pc = "sleep"
        /\ cycleEnd \in {"done", "record_raised"}
        /\ LogPayloads = ProcessFrom(positions, 1, all_open_orders, INSTRUMENT_SPECS).calls

\* Reached: a call raised and calls for a later position followed it.
C9_Witness ==
    \E k \in 1..Len(calls) :
        /\ calls[k].resp = "raise"
        /\ k < Len(calls)
        /\ calls[Len(calls)].call.symbol # calls[k].call.symbol

(***************************************************************************)
(* C10.  A cycle whose fetch raised or whose answer lacked its list issues *)
(* no call, leaves the process asleep, and the process can wake up for the *)
(* next cycle.                                                             *)
(***************************************************************************)
C10_FetchFailureSkipsCycle ==
    FetchFailed =>
        /\ calls = <<>>
        /\ pc = "sleep"
        /\ ENABLED Sleep

\* Reached: the orders answer lacked its list while a managed position had
\* no order at all.
C10_Witness ==
    /\ fetch = <<"ok", "nokey">>
    /\ exOrders = <<>>
    /\ \E j \in 1..Len(exPositions) : Manageable(exPositions[j])

(***************************************************************************)
(* Vocabulary of the later properties.                                     *)
(***************************************************************************)
\* What the loop body yields for position j of the last cycle.
OwnRun(j) == ProcessPosition(positions[j], all_open_orders, INSTRUMENT_SPECS)

\* The positions of the last cycle the loop came to and whose record did not
\* raise.
Reached == {j \in 1..Len(positions) : \A i \in 1..j : ~OwnRun(i).raised}

\* The payloads of the last cycle that name a symbol, in order.
PayloadsFor(symbol) ==
    LET Names(c) == c.symbol = symbol
    IN  SelectSeq(LogPayloads, Names)

NoSpec(p) == p.symbol # Missing /\ p.symbol \notin DOMAIN INSTRUMENT_SPECS

(***************************************************************************)
(* C11.  Per-position skip: a position whose symbol has no spec in the     *)
(* registry gets no create, edit or cancel call in the cycle, and the      *)
(* cycle still issues, for every other position the loop comes to, the     *)
(* calls that position's own processing yields.                            *)
(***************************************************************************)
C11_SkipOnlyThatPosition ==
    (pc = "sleep" /\ fetch = <<"ok", "ok">>) =>
        /\ \A j \in 1..Len(positions) :
              NoSpec(positions[j]) => PayloadsFor(positions[j].symbol) = <<>>
        /\ (\E j \in 1..Len(positions) : NoSpec(positions[j])) =>
              \A i \in Reached : PayloadsFor(positions[i].symbol) = OwnRun(i).calls

\* Reached: the first position has no spec and the second got its calls.
C11_Witness ==
    /\ pc = "sleep"
    /\ cycleEnd = "done"
    /\ Len(positions) = 2
    /\ NoSpec(positions[1])
    /\ Manageable(positions[2])
    /\ PayloadsFor(positions[2].symbol) # <<>>

(***************************************************************************)
(* C12.  Per-arm state machine: in a cycle that processed every position,  *)
(* each arm of each managed position has exactly one outcome.  With no     *)
(* order in the arm's bucket: one create and no edit.  With a first order  *)
(* within 2 ticks of the target and of the formatted position size: no     *)
(* create and no edit.  With a first order farther off or of another size: *)
(* no create and one edit, for that order.                                 *)
(***************************************************************************)
CreatesOf(symbol, orderType) ==
    {k \in 1..Len(calls) : /\ calls[k].call.action = "CREATE"
                           /\ calls[k].call.symbol = symbol
                           /\ calls[k].call.orderType = orderType}

EditsOf(symbol, priceKey) ==
    {k \in 1..Len(calls) : /\ calls[k].call.action = "EDIT"
                           /\ calls[k].call.symbol = symbol
                           /\ priceKey \in calls[k].call.keys}

\* The arms: the types of the bucket, the type a create carries, the price
\* key, and the price an order and a target line hold for the arm.
Arms == {"stp", "lmt"}

ArmTypes(arm) == IF arm = "stp" THEN StpTypes ELSE LmtTypes

ArmKey(arm) == IF arm = "stp" THEN "stopPrice" ELSE "limitPrice"

ArmPrice(arm, o) == IF arm = "stp" THEN o.stopPrice ELSE o.limitPrice

ArmTarget(arm, t) == IF arm = "stp" THEN t.target_stp ELSE t.target_lmt

\* "CREATE", "AMEND" or "NO-OP": what the state machine asks of an arm.
ArmDue(p, arm) ==
    LET bucket == ArmBucket(p, ArmTypes(arm))
    IN  IF bucket = <<>> THEN "CREATE"
        ELSE IF \/ FarFromTarget(p, ArmPrice(arm, bucket[1]), ArmTarget(arm, TargetOf(p)))
                \/ PriceRead(bucket[1].size) # TargetOf(p).size
             THEN "AMEND"
             ELSE "NO-OP"

C12_OneOutcomePerArm ==
    cycleEnd = "done" =>
        \A j \in ManagedPositions : \A arm \in Arms :
            LET p == positions[j]
                creates == CreatesOf(p.symbol, arm)
                edits == EditsOf(p.symbol, ArmKey(arm))
            IN  /\ ArmDue(p, arm) = "CREATE" => (Cardinality(creates) = 1 /\ edits = {})
                /\ ArmDue(p, arm) = "NO-OP" => (creates = {} /\ edits = {})
                /\ ArmDue(p, arm) = "AMEND" =>
                      /\ creates = {}
                      /\ Cardinality(edits) = 1
                      /\ \A k \in edits :
                            calls[k].call.order_id
                              = ArmBucket(p, ArmTypes(arm))[1].order_id

\* Reached: one cycle with an arm to create, an arm to leave and an arm to
\* amend.
C12_Witness ==
    /\ cycleEnd = "done"
    /\ \A due \in {"CREATE", "NO-OP", "AMEND"} :
          \E j \in ManagedPositions : \E arm \in Arms : ArmDue(positions[j], arm) = due

(***************************************************************************)
(* The process under its scheduling: __main__ runs its statements one      *)
(* after the other and the loop of lines 295-297 never stops by itself, so *)
(* a step of the process that stays possible is eventually taken.  The     *)
(* exchange owes nothing: its events may stop at any time.                 *)
(***************************************************************************)
\* Weak fairness of Monitor, with ENABLED <<Monitor>>_vars written out: a
\* cycle can start exactly when pc = "loop", and every step of Monitor leaves
\* pc = "loop", so WF_vars(Monitor) says that the process does not stand in
\* front of a cycle for ever.
MonitorFair == []<>(pc # "loop")

LiveSpec ==
    /\ Init
    /\ [][Next]_vars
    /\ WF_vars(CheckSecret)
    /\ WF_vars(LoadSpecs)
    /\ WF_vars(Sleep)
    /\ MonitorFair

\* The targets of a position, as lines 160-173 compute them.
StopTarget(p) ==
    format_price(INSTRUMENT_SPECS, compute_targets(Lower(p.side), p.price).raw_stp,
                 PctScale, p.symbol).val

LimitTarget(p) ==
    format_price(INSTRUMENT_SPECS, compute_targets(Lower(p.side), p.price).raw_lmt,
                 PctScale, p.symbol).val

SizeTarget(p) == format_qty(INSTRUMENT_SPECS, p.size, p.symbol).val

\* The orders resting on the exchange for one arm of a position.
Resting(p, types) ==
    LET InArm(o) == /\ o.symbol # Missing
                    /\ o.symbol = p.symbol
                    /\ o.side # Missing
                    /\ Lower(o.side) = ClosingSide(p)
                    /\ Lower(o.orderType) \in types
    IN  SelectSeq(exOrders, InArm)

\* One stop and one take-profit order rest for the position, each of the
\* formatted position size and within 2 ticks of its target.
Protected(p) ==
    LET stops == Resting(p, StpTypes)
        limits == Resting(p, LmtTypes)
    IN  /\ Len(stops) = 1
        /\ Len(limits) = 1
        /\ PriceRead(stops[1].size) = SizeTarget(p)
        /\ PriceRead(limits[1].size) = SizeTarget(p)
        /\ Abs(PriceRead(stops[1].stopPrice) - StopTarget(p)) <= 2 * TickOf(p)
        /\ Abs(PriceRead(limits[1].limitPrice) - LimitTarget(p)) <= 2 * TickOf(p)

AllProtected ==
    \A j \in 1..Len(exPositions) : Manageable(exPositions[j]) => Protected(exPositions[j])

\* Every record the exchange reports holds the keys the loop reads.
SoundRecords ==
    /\ \A j \in 1..Len(exPositions) :
          exPositions[j].symbol # Missing /\ exPositions[j].side # Missing
    /\ \A i \in 1..Len(exOrders) :
          /\ exOrders[i].symbol # Missing
          /\ exOrders[i].side # Missing
          /\ exOrders[i].orderType # Missing

(***************************************************************************)
(* C13.  Convergence, as claimed: once the positions stay as they are and  *)
(* the calls succeed, there comes a time from which every managed position *)
(* has one stop and one take-profit order resting on its closing side, of  *)
(* the formatted position size and within 2 ticks of the target, and from  *)
(* which no cycle issues a call.  The code breaks this: a record that      *)
(* raises ends every cycle before the positions after it are looked at.    *)
(***************************************************************************)
C13_Converges ==
    <>[]((pc \in {"loop", "sleep"} => AllProtected) /\ calls = <<>>)

\* What the loop does achieve: the same convergence once every record the
\* exchange reports is sound.
ConvergesOnSoundRecords ==
    <>[]((pc \in {"loop", "sleep"} /\ SoundRecords) => (AllProtected /\ calls = <<>>))

(***************************************************************************)
(* C14.  Every created order is protective: a create call is reduce-only,  *)
(* is on the side opposite to the side of a managed position of its        *)
(* symbol, has the formatted size of that position, and is either a stop   *)
(* order at the formatted stop target triggered on the mark price or a     *)
(* limit order at the formatted limit target.                              *)
(***************************************************************************)
OppositeSide(p, side) ==
    \/ Lower(p.side) \in {"long", "buy"} /\ side = "sell"
    \/ Lower(p.side) \in {"short", "sell"} /\ side = "buy"

C14_CreatedOrdersProtective ==
    \A k \in 1..Len(calls) :
        LET c == calls[k].call
        IN  c.action = "CREATE" =>
              /\ "reduceOnly" \in c.keys
              /\ c.reduceOnly = TRUE
              /\ \E j \in ManagedPositions :
                    LET p == positions[j]
                    IN  /\ p.symbol = c.symbol
                        /\ OppositeSide(p, c.side)
                        /\ c.size = SizeTarget(p)
                        /\ \/ /\ c.orderType = "stp"
                              /\ c.stopPrice = StopTarget(p)
                              /\ c.triggerSignal = "mark"
                              /\ {"stopPrice", "triggerSignal"} \subseteq c.keys
                              /\ "limitPrice" \notin c.keys
                           \/ /\ c.orderType = "lmt"
                              /\ c.limitPrice = LimitTarget(p)
                              /\ "limitPrice" \in c.keys
                              /\ "stopPrice" \notin c.keys

\* Reached: a stop and a take-profit order created for a position entered by
\* selling, whose size the formatting changes.
C14_Witness ==
    \E j \in ManagedPositions :
        LET p == positions[j]
        IN  /\ Lower(p.side) = "sell"
            /\ SizeTarget(p) # p.size
            /\ CreatesOf(p.symbol, "stp") # {}
            /\ CreatesOf(p.symbol, "lmt") # {}

(***************************************************************************)
(* C15.  Matching without regard to case, as claimed: in a cycle that      *)
(* processed every position, an arm of a managed position gets no create   *)
(* call when an order rests whose symbol is the position's up to the case  *)
(* of the letters, whose side is the closing side up to case and whose     *)
(* type is one of the arm's.  The code breaks this: line 186 compares the  *)
(* symbols letter for letter.                                              *)
(***************************************************************************)
MatchesUpToCase(o, p, arm) ==
    /\ Upper(o.symbol) = Upper(p.symbol)
    /\ Lower(o.side) = ClosingSide(p)
    /\ Lower(o.orderType) \in ArmTypes(arm)

C15_MatchedUpToCase ==
    cycleEnd = "done" =>
        \A j \in ManagedPositions : \A arm \in Arms :
            (\E i \in 1..Len(all_open_orders) :
                 MatchesUpToCase(all_open_orders[i], positions[j], arm))
               => CreatesOf(positions[j].symbol, arm) = {}

(***************************************************************************)
(* C16.  Cancels only for the extra orders of an arm, as claimed: every    *)
(* cancel call of a cycle names an order that sits, behind the first one,  *)
(* in the stop or the take-profit bucket of a managed position.  The code  *)
(* breaks this: the loop of lines 211-219 runs over every order on the     *)
(* position's symbol and closing side, whatever its type.                  *)
(***************************************************************************)
C16_OnlyBucketExtrasCancelled ==
    \A k \in 1..Len(calls) :
        calls[k].call.action = "CANCEL" =>
            \E j \in ManagedPositions : \E arm \in Arms :
                LET bucket == ArmBucket(positions[j], ArmTypes(arm))
                IN  \E i \in 2..Len(bucket) : bucket[i].order_id = calls[k].call.order_id

(***************************************************************************)
(* C17.  Result of the instrument load, as claimed: the load fails when    *)
(* the metadata call raises, when the answer holds no instrument list and  *)
(* when no spec results from it, so that after a successful load the       *)
(* registry holds a spec; a list with a usable descriptor loads, its       *)
(* unusable descriptors being passed over.  The code breaks this: a list   *)
(* of unusable descriptors only loads with success and leaves the registry *)
(* empty.                                                                  *)
(***************************************************************************)
UsableSymbols(resp) ==
    {resp.instruments[i].symbol :
        i \in {n \in 1..Len(resp.instruments) : DescriptorUsable(resp.instruments[n])}}

C17_LoadResult ==
    loadResult # "none" =>
        /\ (instResp.raises \/ ~instResp.hasList) => loadResult = "failed"
        /\ DOMAIN INSTRUMENT_SPECS = {} => loadResult = "failed"
        /\ loadResult = "ok" => DOMAIN INSTRUMENT_SPECS # {}
        /\ (~instResp.raises /\ instResp.hasList /\ UsableSymbols(instResp) # {}) =>
              /\ loadResult = "ok"
              /\ DOMAIN INSTRUMENT_SPECS = UsableSymbols(instResp)

(***************************************************************************)
(* format_price called on its own: a registry loaded from one descriptor,  *)
(* a price in thousandths and a symbol with or without a spec.             *)
(***************************************************************************)
\* Tick sizes in thousandths: 0.001 up to 2.5.
FormatTicks == {1, 5, 10, 25, 100, 250, 500, 1000, 2000, 2500}

FormatSymbols == {"PF_ETHUSD", "PF_ADAUSD"}

FormatInit ==
    /\ pc = "format"
    /\ secretLen \in {n \in SecretLens : SecretSane(n)}
    /\ \E tick \in FormatTicks :
          /\ instResp = InstrumentResponse(FALSE, TRUE, <<Descriptor("PF_ETHUSD", tick, 0)>>)
          /\ INSTRUMENT_SPECS = update_instrument_specs_registry(instResp)
    /\ loadResult = "ok"
    /\ exPositions = <<>>
    /\ exOrders = <<>>
    /\ fetched = FALSE
    /\ positions = <<>>
    /\ all_open_orders = <<>>
    /\ calls = <<>>
    /\ fetch = <<"uncalled", "uncalled">>
    /\ targets = <<>>
    /\ cycleEnd = "idle"
    /\ events = 0
    /\ failures = 0
    /\ stable = FALSE
    /\ retry = {}
    /\ fmt_in \in [price : 0..MaxPrice, symbol : FormatSymbols]
    /\ fmt_out = NoFormatResult

\* The call: the price is the rational fmt_in.price / 1.
FormatPrice ==
    /\ pc = "format"
    /\ ~fmt_out.returned
    /\ LET r == format_price(INSTRUMENT_SPECS, fmt_in.price, 1, fmt_in.symbol)
       IN  fmt_out' = [val |-> r.val, ok |-> r.ok, returned |-> TRUE]
    /\ UNCHANGED <<pc, secretLen, instResp, loadResult, INSTRUMENT_SPECS, exPositions,
                   exOrders, fetched, positions, all_open_orders, calls, fetch, targets,
                   cycleEnd, events, failures, stable, retry, fmt_in>>

FormatNext == FormatPrice

FormatSpec == FormatInit /\ [][FormatNext]_vars

(***************************************************************************)
(* C18.  format_price: for a symbol with a spec the result is ok and its   *)
(* value is a multiple of the tick size, a nearest one to the price (the   *)
(* even multiple when two are equally near, as round() gives it), with no  *)
(* more fractional digits than price_decimals (a whole number when that is *)
(* 0); for a symbol without a spec the result is not ok and holds no       *)
(* value.                                                                  *)
(***************************************************************************)
C18_FormatPrice ==
    fmt_out.returned =>
        IF fmt_in.symbol \in DOMAIN INSTRUMENT_SPECS
        THEN LET tick == INSTRUMENT_SPECS[fmt_in.symbol].tick_size
                 decimals == INSTRUMENT_SPECS[fmt_in.symbol].price_decimals
                 val == fmt_out.val
             IN  /\ fmt_out.ok
                 /\ val % tick = 0
                 /\ 2 * Abs(val - fmt_in.price) <= tick
                 /\ 2 * Abs(val - fmt_in.price) = tick => (val \div tick) % 2 = 0
                 /\ \A m \in 0..(MaxPrice \div tick + 1) :
                       Abs(val - fmt_in.price) <= Abs(m * tick - fmt_in.price)
                 /\ decimals \in 0..3
                 /\ val % Pow10(3 - decimals) = 0
                 /\ decimals = 0 => val % 1000 = 0
        ELSE ~fmt_out.ok /\ fmt_out.val = None

\* Reached: a price half a tick of 0.25 below the multiple it is rounded up
\* to, and a result with two fractional digits.
C18_Witness ==
    /\ fmt_out.returned
    /\ fmt_out.ok
    /\ INSTRUMENT_SPECS[fmt_in.symbol].tick_size = 250
    /\ INSTRUMENT_SPECS[fmt_in.symbol].price_decimals = 2
    /\ fmt_out.val = fmt_in.price + 125

(***************************************************************************)
(* C19.  Orders without a processed position are left alone: a cycle that  *)
(* fetched no position issues no call; a cancel or edit call names a       *)
(* resting order that is on the symbol, letter for letter, and on the      *)
(* closing side of a managed position; and every other resting order is on *)
(* the exchange after the cycle as it was before.                          *)
(***************************************************************************)
\* An order that belongs to no managed position of the last cycle.
Orphan(o) ==
    ~\E j \in ManagedPositions :
        /\ o.symbol = positions[j].symbol
        /\ Lower(o.side) = ClosingSide(positions[j])

C19_OrphansUntouched ==
    /\ cycleEnd = "no_positions" => calls = <<>>
    /\ \A k \in 1..Len(calls) :
          calls[k].call.action \in {"CANCEL", "EDIT"} =>
             /\ \E i \in 1..Len(all_open_orders) :
                   all_open_orders[i].order_id = calls[k].call.order_id
             /\ \A i \in 1..Len(all_open_orders) :
                   all_open_orders[i].order_id = calls[k].call.order_id
                      => ~Orphan(all_open_orders[i])
    /\ (pc = "sleep" /\ fetch = <<"ok", "ok">>) =>
          SelectSeq(exOrders, Orphan) = SelectSeq(all_open_orders, Orphan)

\* Reached: the two orders of a closed position rest while the cycle issues
\* calls for the position of another symbol.
C19_Witness ==
    /\ pc = "sleep"
    /\ cycleEnd = "done"
    /\ calls # <<>>
    /\ Len(SelectSeq(all_open_orders, Orphan)) = 2
    /\ \A i \in 1..Len(all_open_orders) :
          /\ all_open_orders[i].symbol = "PF_ETHUSD"
          /\ Lower(all_open_orders[i].orderType) \in StpTypes \cup LmtTypes
    /\ \A j \in 1..Len(positions) : positions[j].symbol = "PF_SOLUSD"

(***************************************************************************)
(* The cycles over a book whose records share an identifier or lack one:   *)
(* the exchange of Spec gives every order its own identifier, here the     *)
(* book is any list of up to MaxOrders of the records below, under two     *)
(* positions, and the process is in its loop with its registry loaded.     *)
(***************************************************************************)
\* Identifiers of the records: None stands for a record with neither
\* 'order_id' nor 'orderId'.
SharedIds == {None, 1, 2}

\* A stop far from the target of the PF_ETHUSD position, and a stop at the
\* target of the PF_SOLUSD position.
SharedIdOrders ==
    {Order(id, "PF_ETHUSD", "sell", "stp", 100000, None, 1000) : id \in SharedIds}
    \cup {Order(id, "PF_SOLUSD", "buy", "stp", 20310, None, 1200) : id \in SharedIds}

RECURSIVE Books(_)
Books(n) ==
    IF n = 0 THEN {<<>>}
    ELSE Books(n - 1)
         \cup {Append(b, o) : b \in {c \in Books(n - 1) : Len(c) = n - 1},
                              o \in SharedIdOrders}

SharedIdInit ==
    /\ pc = "loop"
    /\ secretLen \in {n \in SecretLens : SecretSane(n)}
    /\ instResp = FullResponse
    /\ loadResult = "ok"
    /\ INSTRUMENT_SPECS = update_instrument_specs_registry(FullResponse)
    /\ exPositions = << Position("PF_ETHUSD", "long", 100000, 1000),
                        Position("PF_SOLUSD", "sell", 20010, 1250) >>
    /\ exOrders \in Books(MaxOrders)
    /\ fetched = FALSE
    /\ positions = <<>>
    /\ all_open_orders = <<>>
    /\ calls = <<>>
    /\ fetch = <<"uncalled", "uncalled">>
    /\ targets = <<>>
    /\ cycleEnd = "idle"
    /\ events = 0
    /\ failures = 0
    /\ stable = FALSE
    /\ retry = {}
    /\ fmt_in = NoFormatCall
    /\ fmt_out = NoFormatResult

SharedIdNext ==
    \/ Monitor
    \/ Sleep

SharedIdSpec == SharedIdInit /\ [][SharedIdNext]_vars

(***************************************************************************)
(* C20, as claimed: within one cycle no identifier gets both a cancel      *)
(* call and an edit call, also when orders share an identifier or lack     *)
(* one.  It fails when an identifier is shared by orders of two positions: *)
(* the keep list is made anew for every position.                          *)
(***************************************************************************)
C20_NoIdCancelledAndEdited ==
    \A k1, k2 \in 1..Len(calls) :
        (calls[k1].call.action = "CANCEL" /\ calls[k2].call.action = "EDIT")
           => calls[k1].call.order_id # calls[k2].call.order_id

\* No identifier, and no lack of one, is common to orders of two symbols.
IdsApartBySymbol ==
    \A i1, i2 \in 1..Len(all_open_orders) :
        all_open_orders[i1].order_id = all_open_orders[i2].order_id
           => all_open_orders[i1].symbol = all_open_orders[i2].symbol

(***************************************************************************)
(* C20, amended: among the calls a cycle issues for one position no        *)
(* identifier gets both a cancel and an edit, also when orders share an    *)
(* identifier or lack one; within the whole cycle this holds when no       *)
(* identifier is common to orders of different symbols.                    *)
(***************************************************************************)
C20_NoIdCancelledAndEditedForOnePosition ==
    /\ \A k1, k2 \in 1..Len(calls) :
          (/\ calls[k1].call.action = "CANCEL"
           /\ calls[k2].call.action = "EDIT"
           /\ calls[k1].call.symbol = calls[k2].call.symbol)
             => calls[k1].call.order_id # calls[k2].call.order_id
    /\ IdsApartBySymbol => C20_NoIdCancelledAndEdited

\* Reached: two stops of one position lack an identifier, the first is
\* edited, and a stop with an identifier is cancelled.
C20_Witness ==
    /\ cycleEnd = "done"
    /\ \E k1, k2 \in 1..Len(calls) :
          /\ calls[k1].call.action = "CANCEL"
          /\ calls[k1].call.order_id # None
          /\ calls[k2].call.action = "EDIT"
          /\ calls[k2].call.order_id = None
          /\ calls[k1].call.symbol = calls[k2].call.symbol
          /\ Cardinality({i \in 1..Len(all_open_orders) :
                 /\ all_open_orders[i].symbol = calls[k2].call.symbol
                 /\ all_open_orders[i].order_id = None}) = 2

====
